---- MODULE Spec2Model ----
(***************************************************************************)
(* A model of the csv-stream Writer (src/src/writer.rs): the header state  *)
(* machine, the field-count check and the buffer growth protocol, driven   *)
(* by write_field, write_record and serialize on one caller-owned buffer.  *)
(* Bytes are naturals; buffers, fields and names are sequences of bytes.   *)
(***************************************************************************)
EXTENDS Integers, Sequences, FiniteSets, TLC

\* ------------------------------------------------------------------ bounds

\* The number of Writer calls (write_field, write_record, serialize) of a run.
MaxCalls == 3
\* The longest input sequence handed to an adapter.
MaxItems == 2
\* The number of pulls (Iter::next) or polls (Stream::poll_next) of a run.
MaxPolls == 4

\* ------------------------------------------------------- program constants

\* b',' : the default field delimiter.
DelimiterByte == 44
\* b'"' : the default quote character.
QuoteByte == 34
\* b'\n' : the default record terminator.
LF == 10
\* b'\r' : first byte of the CRLF terminator.
CR == 13
\* The filler byte of Vec::resize in extend.
Pad == 0

\* Field contents used as inputs: b"", b"a", b"\"".
EmptyField == << >>
FieldA == <<97>>
FieldQ == <<QuoteByte>>

\* ------------------------------------------------------------- error.rs

\* Result<()>: Ok(()) or Err(Error(kind)).
Ok == [kind |-> "Ok", expected_len |-> 0, len |-> 0]
UnequalLengths(expected, actual) ==
    [kind |-> "UnequalLengths", expected_len |-> expected, len |-> actual]
SerializeError == [kind |-> "Serialize", expected_len |-> 0, len |-> 0]

\* Option<u64>.
None == [some |-> FALSE, val |-> 0]
Some(n) == [some |-> TRUE, val |-> n]

\* ------------------------------------------------- lib.rs: configuration

QuoteStyle == {"Always", "Necessary", "NonNumeric", "Never"}
TerminatorCRLF == [kind |-> "CRLF", byte |-> 0]
TerminatorAny(b) == [kind |-> "Any", byte |-> b]
Terminator == {TerminatorCRLF, TerminatorAny(LF)}

\* WriterBuilder: the knobs that the modelled operations read.
WriterBuilder ==
    [flexible : BOOLEAN, has_headers : BOOLEAN,
     style : QuoteStyle, term : Terminator]

\* WriterBuilder::default().
DefaultBuilder ==
    [flexible |-> FALSE, has_headers |-> TRUE,
     style |-> "Necessary", term |-> TerminatorAny(LF)]

\* --------------------------------------------- the Field Encoder (csv_core)

\* Bytes that force quoting under QuoteStyle::Necessary: the delimiter, the
\* quote and the record terminator bytes.
RequiresQuotes(c, b) ==
    \/ b = DelimiterByte
    \/ b = QuoteByte
    \/ IF c.term.kind = "CRLF" \/ c.term.byte \in {CR, LF}
       THEN b \in {CR, LF}
       ELSE b = c.term.byte

NeedsQuotes(c, field) == \E i \in 1..Len(field) : RequiresQuotes(c, field[i])

\* A field that parses as a number: here, a non-empty run of ASCII digits.
IsNumeric(field) ==
    Len(field) > 0 /\ \A i \in 1..Len(field) : field[i] \in 48..57

ShouldQuote(c, field) ==
    CASE c.style = "Always" -> TRUE
      [] c.style = "Never" -> FALSE
      [] c.style = "NonNumeric" -> ~IsNumeric(field)
      [] OTHER -> NeedsQuotes(c, field)

\* The body of a quoted field: every quote byte is doubled.
RECURSIVE QuoteBody(_)
QuoteBody(field) ==
    IF field = << >> THEN << >>
    ELSE (IF Head(field) = QuoteByte THEN <<QuoteByte, QuoteByte>>
          ELSE <<Head(field)>>) \o QuoteBody(Tail(field))

Min(a, b) == IF a <= b THEN a ELSE b

\* What an encoder call reports: the bytes it put in the output slice (never
\* more than the slice holds), how much input it consumed, whether it
\* finished (InputEmpty) or ran out of room (OutputFull), and the encoder
\* after the call, record_bytes counting the bytes put out.
Encoded(c, full, cap, nin, keep) ==
    [res |-> IF Len(full) <= cap THEN "InputEmpty" ELSE "OutputFull",
     nin |-> IF Len(full) <= cap THEN nin ELSE 0,
     out |-> SubSeq(full, 1, Min(Len(full), cap)),
     nout |-> Min(Len(full), cap),
     core |-> [c EXCEPT !.record_bytes =
                          IF keep THEN @ + Min(Len(full), cap) ELSE 0]]

\* The bytes of a field: an opening quote when a quoted field starts, then
\* the field, its quotes doubled when it is quoted.
FieldBytes(c, field, quoting) ==
    (IF ~c.in_field /\ quoting THEN <<QuoteByte>> ELSE << >>)
      \o (IF quoting THEN QuoteBody(field) ELSE field)

CoreFieldQuoting(c, field, cap, quoting) ==
    Encoded([c EXCEPT !.quoting = quoting, !.in_field = TRUE],
            FieldBytes(c, field, quoting), cap, Len(field), TRUE)

\* csv_core::Writer::field(input, output).
CoreField(c, field, cap) ==
    CoreFieldQuoting(c, field, cap,
                     IF c.in_field THEN c.quoting ELSE ShouldQuote(c, field))

\* csv_core::Writer::delimiter(output): closes an open quoted field.
CoreDelimiter(c, cap) ==
    Encoded([c EXCEPT !.quoting = FALSE, !.in_field = FALSE],
            (IF c.quoting THEN <<QuoteByte>> ELSE << >>) \o <<DelimiterByte>>,
            cap, 0, TRUE)

\* csv_core::Writer::terminator(output): an empty record is written as a
\* quoted empty field unless the style is Never; an open quoted field is
\* closed.
CoreTerminator(c, cap) ==
    Encoded([c EXCEPT !.quoting = FALSE, !.in_field = FALSE],
            (IF c.record_bytes = 0 /\ c.style # "Never"
             THEN <<QuoteByte, QuoteByte>> ELSE << >>)
              \o (IF c.quoting THEN <<QuoteByte>> ELSE << >>)
              \o (IF c.term.kind = "CRLF" THEN <<CR, LF>> ELSE <<c.term.byte>>),
            cap, 0, FALSE)

\* builder.builder.build(): a fresh encoder.
CoreNew(b) ==
    [style |-> b.style, term |-> b.term,
     in_field |-> FALSE, quoting |-> FALSE, record_bytes |-> 0]

\* ---------------------------------------------------------------- writer.rs

\* Writer::new that does not read has_headers.
WriterNewAlwaysHeaders(b) ==
    [state |-> [header |-> "Write",
                flexible |-> b.flexible,
                first_field_count |-> None,
                fields_written |-> 0,
                panicked |-> FALSE],
     core |-> CoreNew(b)]

\* Writer::new.
WriterNew(b) ==
    [state |-> [header |-> IF b.has_headers THEN "Write" ELSE "None",
                flexible |-> b.flexible,
                first_field_count |-> None,
                fields_written |-> 0,
                panicked |-> FALSE],
     core |-> CoreNew(b)]

\* A Writer and buffer w with the result res of the operation that left them.
Returned(w, res) ==
    [state |-> w.state, core |-> w.core, buf |-> w.buf, res |-> res]

\* extend whose second resize is missing: the reserved bytes stay.
ResizedKeepsPadding(b, grown, out, n) ==
    [i \in 1..Len(grown) |->
       IF i > Len(b) /\ i <= Len(b) + Len(out) THEN out[i - Len(b)]
       ELSE grown[i]]

\* The buffer of extend(buf, max, f): grown by max filler bytes, the n bytes
\* out written by f into the new tail, shrunk to the old length plus n.
Resized(b, grown, out, n) ==
    SubSeq([i \in 1..Len(grown) |->
              IF i > Len(b) /\ i <= Len(b) + Len(out) THEN out[i - Len(b)]
              ELSE grown[i]] \o [i \in 1..n |-> Pad],
           1, Len(b) + n)

\* extend(buf, max, f), f being an encoder call that reported e.
Extend(w, max, e) ==
    [state |-> w.state, core |-> e.core,
     buf |-> Resized(w.buf, w.buf \o [i \in 1..max |-> Pad], e.out, e.nout),
     res |-> Ok]

\* check_field_count without the comparison arm: every row passes.
CheckFieldCountNoCompare(s) ==
    IF ~s.flexible /\ ~s.first_field_count.some
    THEN [state |-> [s EXCEPT !.first_field_count = Some(s.fields_written)],
          res |-> Ok]
    ELSE [state |-> s, res |-> Ok]

\* check_field_count with the two counts of the error exchanged.
CheckFieldCountSwapped(s) ==
    IF ~s.flexible
    THEN IF ~s.first_field_count.some
         THEN [state |-> [s EXCEPT !.first_field_count = Some(s.fields_written)],
               res |-> Ok]
         ELSE IF s.first_field_count.val # s.fields_written
              THEN [state |-> s,
                    res |-> UnequalLengths(s.fields_written,
                                           s.first_field_count.val)]
              ELSE [state |-> s, res |-> Ok]
    ELSE [state |-> s, res |-> Ok]

\* check_field_count that does not read the flexible flag.
CheckFieldCountAlways(s) ==
    IF ~s.first_field_count.some
    THEN [state |-> [s EXCEPT !.first_field_count = Some(s.fields_written)],
          res |-> Ok]
    ELSE IF s.first_field_count.val # s.fields_written
         THEN [state |-> s,
               res |-> UnequalLengths(s.first_field_count.val,
                                      s.fields_written)]
         ELSE [state |-> s, res |-> Ok]

\* check_field_count that takes a row of no fields for no row at all.
CheckFieldCountSkipsZero(s) ==
    IF ~s.flexible /\ s.fields_written > 0
    THEN IF ~s.first_field_count.some
         THEN [state |-> [s EXCEPT !.first_field_count = Some(s.fields_written)],
               res |-> Ok]
         ELSE IF s.first_field_count.val # s.fields_written
              THEN [state |-> s,
                    res |-> UnequalLengths(s.first_field_count.val,
                                           s.fields_written)]
              ELSE [state |-> s, res |-> Ok]
    ELSE [state |-> s, res |-> Ok]

\* check_field_count whose None arm does not store the count.
CheckFieldCountNoStore(s) ==
    IF ~s.flexible /\ s.first_field_count.some
                  /\ s.first_field_count.val # s.fields_written
    THEN [state |-> s,
          res |-> UnequalLengths(s.first_field_count.val, s.fields_written)]
    ELSE [state |-> s, res |-> Ok]

\* check_field_count that takes the count of a differing row for the new
\* baseline while reporting it.
CheckFieldCountRebase(s) ==
    IF ~s.flexible
    THEN IF ~s.first_field_count.some
         THEN [state |-> [s EXCEPT !.first_field_count = Some(s.fields_written)],
               res |-> Ok]
         ELSE IF s.first_field_count.val # s.fields_written
              THEN [state |-> [s EXCEPT !.first_field_count =
                                            Some(s.fields_written)],
                    res |-> UnequalLengths(s.first_field_count.val,
                                           s.fields_written)]
              ELSE [state |-> s, res |-> Ok]
    ELSE [state |-> s, res |-> Ok]

\* check_field_count that turns the Writer flexible once a row differed.
CheckFieldCountTurnsFlexible(s) ==
    IF ~s.flexible
    THEN IF ~s.first_field_count.some
         THEN [state |-> [s EXCEPT !.first_field_count = Some(s.fields_written)],
               res |-> Ok]
         ELSE IF s.first_field_count.val # s.fields_written
              THEN [state |-> [s EXCEPT !.flexible = TRUE],
                    res |-> UnequalLengths(s.first_field_count.val,
                                           s.fields_written)]
              ELSE [state |-> s, res |-> Ok]
    ELSE [state |-> s, res |-> Ok]

\* Writer::check_field_count.
CheckFieldCount(s) ==
    IF ~s.flexible
    THEN IF ~s.first_field_count.some
         THEN [state |-> [s EXCEPT !.first_field_count = Some(s.fields_written)],
               res |-> Ok]
         ELSE IF s.first_field_count.val # s.fields_written
              THEN [state |-> s,
                    res |-> UnequalLengths(s.first_field_count.val,
                                           s.fields_written)]
              ELSE [state |-> s, res |-> Ok]
    ELSE [state |-> s, res |-> Ok]

\* The encoder calls of the three primitives, each with the slice that
\* extend reserved for it: self.core.delimiter(buf) in 2 bytes,
\* self.core.terminator(buf) in 4 and self.core.field(field, buf) in
\* 2 * field.len() + 2.
DelimiterCall(w) == CoreDelimiter(w.core, 2)

\* self.core.terminator(buf) in a slice of 2 bytes.
TerminatorCallReserve2(w) == CoreTerminator(w.core, 2)

TerminatorCall(w) == CoreTerminator(w.core, 4)

FieldCall(w, field) == CoreField(w.core, field, 2 * Len(field) + 2)

\* Writer::write_delimiter.
WriteDelimiter(w) == Extend(w, 2, DelimiterCall(w))

\* A terminator that leaves fields_written as it is.
ResetFieldsWrittenNot(r) == r

\* The closure of write_terminator: self.state.fields_written = 0.
ResetFieldsWritten(r) == [r EXCEPT !.state.fields_written = 0]

\* write_terminator that writes the terminator before it returns the error
\* of the check.
WriteTerminatorAlways(w, chk) ==
    [ResetFieldsWritten(
       Extend([state |-> chk.state, core |-> w.core, buf |-> w.buf],
              4, TerminatorCall(w)))
     EXCEPT !.res = chk.res]

\* write_terminator after self.check_field_count()?, reserving 2 bytes.
WriteTerminatorReserve2(w, chk) ==
    IF chk.res.kind # "Ok"
    THEN [state |-> chk.state, core |-> w.core, buf |-> w.buf, res |-> chk.res]
    ELSE ResetFieldsWritten(
           Extend([state |-> chk.state, core |-> w.core, buf |-> w.buf],
                  2, CoreTerminator(w.core, 2)))

\* write_terminator after self.check_field_count()? returned chk.
WriteTerminatorChecked(w, chk) ==
    IF chk.res.kind # "Ok"
    THEN [state |-> chk.state, core |-> w.core, buf |-> w.buf, res |-> chk.res]
    ELSE ResetFieldsWritten(
           Extend([state |-> chk.state, core |-> w.core, buf |-> w.buf],
                  4, TerminatorCall(w)))

\* Writer::write_terminator.
WriteTerminator(w) == WriteTerminatorChecked(w, CheckFieldCount(w.state))

\* The closure of write_field_impl: self.state.fields_written += 1.
CountField(r) == [r EXCEPT !.state.fields_written = @ + 1]

\* write_field_impl after the delimiter: the field is encoded and counted.
WriteFieldBytes(d, field) ==
    CountField(Extend(d, 2 * Len(field) + 2, FieldCall(d, field)))

\* write_field_impl that writes the delimiter before every field.
WriteFieldImplAlwaysDelimiter(w, field) ==
    WriteFieldBytes(WriteDelimiter(w), field)

\* Writer::write_field_impl.
WriteFieldImpl(w, field) ==
    WriteFieldBytes(IF w.state.fields_written > 0 THEN WriteDelimiter(w) ELSE w,
                    field)

\* The loop of write_record: one write_field_impl per field, in order, left
\* at the first error.
RECURSIVE WriteFields(_, _)
WriteFieldsRest(r, rest) ==
    IF r.res.kind # "Ok" THEN r ELSE WriteFields(r, rest)
WriteFields(w, record) ==
    IF record = << >> THEN Returned(w, Ok)
    ELSE WriteFieldsRest(WriteFieldImpl(w, Head(record)), Tail(record))

\* The end of write_record: self.write_terminator(buf).
WriteRecordEnd(r) == IF r.res.kind # "Ok" THEN r ELSE WriteTerminator(r)

\* write_record that returns early, without a terminator, when the iterator
\* yields no field.
WriteRecordSkipEmpty(w, record) ==
    IF record = << >> THEN Returned(w, Ok)
    ELSE WriteRecordEnd(WriteFields(w, record))

\* Writer::write_record.
WriteRecordOf(w, record) == WriteRecordEnd(WriteFields(w, record))

\* ---------------------------------------- the Flattening Serializer (serde)

\* Structured values: a scalar with its text, an ordered container (sequence,
\* tuple, tuple struct), a struct with named fields, and the rejected shapes.
Scalar(bytes) ==
    [kind |-> "scalar", bytes |-> bytes, names |-> << >>, elems |-> << >>]
Container(elems) ==
    [kind |-> "seq", bytes |-> << >>, names |-> << >>, elems |-> elems]
Struct(names, elems) ==
    [kind |-> "struct", bytes |-> << >>, names |-> names, elems |-> elems]
Rejected(kind) ==
    [kind |-> kind, bytes |-> << >>, names |-> << >>, elems |-> << >>]
RejectedKinds == {"tuple_variant", "struct_variant", "map"}

\* The number of scalar leaves of a value.
RECURSIVE Leaves(_), LeavesOf(_)
Leaves(v) == IF v.kind = "scalar" THEN 1 ELSE LeavesOf(v.elems)
LeavesOf(elems) ==
    IF elems = << >> THEN 0 ELSE Leaves(Head(elems)) + LeavesOf(Tail(elems))

\* Whether a value contains a rejected shape.
RECURSIVE HasRejected(_)
HasRejected(v) ==
    \/ v.kind \in RejectedKinds
    \/ \E i \in 1..Len(v.elems) : HasRejected(v.elems[i])

Failed(w) == [w EXCEPT !.res = SerializeError]

\* serializer::serialize: the data pass. Scalars are written with
\* write_field as they are reached, depth first; a rejected shape ends the
\* pass with a Serialize error, the fields written before it staying written.
RECURSIVE SerValue(_, _), SerElems(_, _)
SerRest(r, rest) == IF r.res.kind # "Ok" THEN r ELSE SerElems(r, rest)
SerValue(w, v) ==
    CASE v.kind = "scalar" -> WriteFieldImpl(w, v.bytes)
      [] v.kind \in {"seq", "struct"} -> SerElems(w, v.elems)
      [] OTHER -> Failed(w)
SerElems(w, elems) ==
    IF elems = << >> THEN w
    ELSE SerRest(SerValue(w, Head(elems)), Tail(elems))

\* serializer::serialize_header: the header pass. It walks the value like
\* the data pass and writes one write_field per named field. hs is the pass's
\* own state: Write (nothing seen), ErrorIfWrite (a scalar outside a struct
\* was seen), InStructField (inside a named field's value),
\* EncounteredStructField (a name was written). A scalar outside a struct
\* next to a named field, and a container as a named field's value, are
\* errors; so is a rejected shape.
RECURSIVE HdrValue(_, _), HdrElems(_, _), HdrFields(_, _, _)
HdrRest(r, rest) == IF r.res.kind # "Ok" THEN r ELSE HdrElems(r, rest)
HdrKey(f) ==
    [state |-> f.state, core |-> f.core, buf |-> f.buf, res |-> f.res,
     hs |-> "InStructField"]
HdrFieldsRest(r, names, elems) ==
    IF r.res.kind # "Ok" THEN r
    ELSE HdrFields([r EXCEPT !.hs = "EncounteredStructField"], names, elems)
HdrValue(h, v) ==
    CASE v.kind = "scalar" ->
           IF h.hs = "Write" THEN [h EXCEPT !.hs = "ErrorIfWrite"]
           ELSE IF h.hs = "EncounteredStructField" THEN Failed(h)
           ELSE h
      [] v.kind = "seq" ->
           IF h.hs = "InStructField" THEN Failed(h) ELSE HdrElems(h, v.elems)
      [] v.kind = "struct" ->
           IF h.hs = "InStructField" THEN Failed(h)
           ELSE HdrFields(h, v.names, v.elems)
      [] OTHER -> Failed(h)
HdrElems(h, elems) ==
    IF elems = << >> THEN h
    ELSE HdrRest(HdrValue(h, Head(elems)), Tail(elems))
HdrFields(h, names, elems) ==
    IF names = << >> THEN h
    ELSE IF h.hs = "ErrorIfWrite" THEN Failed(h)
    ELSE HdrFieldsRest(
           HdrValue(HdrKey(WriteFieldImpl(h, Head(names))), Head(elems)),
           Tail(names), Tail(elems))

\* Result<bool> of the header pass: wrote tells whether names were written.
HeaderResult(h) ==
    [state |-> h.state, core |-> h.core, buf |-> h.buf, res |-> h.res,
     wrote |-> (h.res.kind = "Ok" /\ h.hs = "EncounteredStructField")]

\* serialize_header(wtr, buf, &record).
SerializeHeader(w, v) ==
    HeaderResult(HdrValue([state |-> w.state, core |-> w.core, buf |-> w.buf,
                           res |-> Ok, hs |-> "Write"], v))

\* ------------------------------------------------------- Writer::serialize

\* What a serialize call leaves: the Writer and buffer, the result, whether
\* the call completed a header row (header_row) and the buffer length where
\* its data row starts (mid).
Left(w, r, header_row, mid) ==
    [state |-> w.state, core |-> w.core, buf |-> w.buf, res |-> r,
     header_row |-> header_row, mid |-> mid]

SetHeader(w, header) == [w EXCEPT !.state.header = header]

\* The header branch after the header's terminator, DidWrite not assigned.
HeaderTerminatedNoDidWrite(w, t) ==
    IF t.res.kind # "Ok" THEN Left(t, t.res, FALSE, Len(w.buf))
    ELSE Left(t, Ok, TRUE, Len(t.buf))

\* The header branch after self.write_terminator(buf)? for the header row.
HeaderTerminated(w, t) ==
    IF t.res.kind # "Ok" THEN Left(t, t.res, FALSE, Len(w.buf))
    ELSE Left(SetHeader(t, "DidWrite"), Ok, TRUE, Len(t.buf))

\* The header branch after the header pass, DidNotWrite not assigned.
HeaderPassedNoDidNotWrite(w, sh) ==
    IF sh.res.kind # "Ok" THEN Left(sh, sh.res, FALSE, Len(w.buf))
    ELSE IF sh.wrote THEN HeaderTerminated(w, WriteTerminator(sh))
    ELSE Left(sh, Ok, FALSE, Len(sh.buf))

\* The header branch with an error of the header pass taken as "no header".
HeaderPassedErrorAsDidNotWrite(w, sh) ==
    IF sh.res.kind # "Ok"
    THEN Left(SetHeader(sh, "DidNotWrite"), Ok, FALSE, Len(sh.buf))
    ELSE IF sh.wrote THEN HeaderTerminated(w, WriteTerminator(sh))
    ELSE Left(SetHeader(sh, "DidNotWrite"), Ok, FALSE, Len(sh.buf))

\* The header branch after serialize_header(self, buf, &record)? returned sh.
HeaderPassed(w, sh) ==
    IF sh.res.kind # "Ok" THEN Left(sh, sh.res, FALSE, Len(w.buf))
    ELSE IF sh.wrote THEN HeaderTerminated(w, WriteTerminator(sh))
    ELSE Left(SetHeader(sh, "DidNotWrite"), Ok, FALSE, Len(sh.buf))

\* The header branch taken in every header state but None.
SerializeHeaderStepUnlessNone(w, v) ==
    IF w.state.header = "None" THEN Left(w, Ok, FALSE, Len(w.buf))
    ELSE HeaderPassed(w, SerializeHeader(w, v))

\* The header branch of serialize: if let HeaderState::Write = ... .
SerializeHeaderStep(w, v) ==
    IF w.state.header # "Write" THEN Left(w, Ok, FALSE, Len(w.buf))
    ELSE HeaderPassed(w, SerializeHeader(w, v))

\* serialize that ends the row whatever the data pass returned.
SerializeEndIgnoresError(h, d) ==
    Left(WriteTerminator(d), WriteTerminator(d).res, h.header_row, h.mid)

\* serialize after the data pass: self.write_terminator(buf)?; Ok(()).
SerializeEnd(h, d) ==
    IF d.res.kind # "Ok" THEN Left(d, d.res, h.header_row, h.mid)
    ELSE Left(WriteTerminator(d), WriteTerminator(d).res, h.header_row, h.mid)

\* serialize that returns after it wrote a header row.
SerializeDataSkipsAfterHeader(h, v) ==
    IF h.res.kind # "Ok" \/ h.header_row THEN h
    ELSE SerializeEnd(h, SerValue(Returned(h, Ok), v))

\* serialize after the header branch: serialize(self, buf, &record)?.
SerializeData(h, v) ==
    IF h.res.kind # "Ok" THEN h
    ELSE SerializeEnd(h, SerValue(Returned(h, Ok), v))

\* Writer::serialize.
SerializeOf(w, v) == SerializeData(SerializeHeaderStep(w, v), v)

\* ------------------------------------------------------ iter.rs, stream.rs

\* What the wrapped iterator or stream hands over: Some(s), None, or, for a
\* stream, Poll::Pending.
SourceSome(v) == [kind |-> "Some", value |-> v]
SourceNone == [kind |-> "None", value |-> Scalar(<< >>)]
SourcePending == [kind |-> "Pending", value |-> Scalar(<< >>)]

\* A fresh buffer that also re-arms a header already written.
FreshBufRearmed(w) ==
    [state |-> [w.state EXCEPT !.header = IF @ = "DidWrite" THEN "Write" ELSE @],
     core |-> w.core, buf |-> << >>]

\* let mut buf = vec![]: the adapter's Writer with a fresh buffer.
FreshBuf(w) == [state |-> w.state, core |-> w.core, buf |-> << >>]

\* What a pull or poll returns (out: Some, None or Pending; for Some the
\* item, res with its bytes), the Writer after it, and the number of
\* serialize calls it made.
Polled(w, out, res, bytes, calls) ==
    [state |-> w.state, core |-> w.core,
     out |-> out, res |-> res, bytes |-> bytes, calls |-> calls]

\* An item that ends the iteration when serialize failed.
IterItemStopsOnError(r) ==
    IF r.res.kind # "Ok" THEN Polled(r, "None", Ok, << >>, 1)
    ELSE Polled(r, "Some", Ok, r.buf, 1)

\* Some(self.writer.serialize(&mut buf, s).map(|_| buf)).
IterItem(r) ==
    Polled(r, "Some", r.res, IF r.res.kind = "Ok" THEN r.buf ELSE << >>, 1)

\* Iter::next, s being what self.iter.next() returned.
IterNextOf(w, s) ==
    IF s.kind = "None" THEN Polled(w, "None", Ok, << >>, 0)
    ELSE IterItem(SerializeOf(FreshBuf(w), s.value))

\* A poll that reports completion when serialize failed.
StreamItemEndsOnError(r) ==
    IF r.res.kind # "Ok" THEN Polled(r, "None", Ok, << >>, 1)
    ELSE Polled(r, "Some", Ok, r.buf, 1)

\* p.writer.serialize(&mut buf, s)?; Poll::Ready(Some(Ok(buf))). In a
\* function that returns Poll<Option<Result<_>>> the ? operator returns
\* Poll::Ready(Some(Err(e))).
StreamItem(r) ==
    IF r.res.kind # "Ok" THEN Polled(r, "Some", r.res, << >>, 1)
    ELSE Polled(r, "Some", Ok, r.buf, 1)

\* poll_next that reports a completed source as not ready.
PollNextCompletionAsPending(w, s) ==
    IF s.kind \in {"Pending", "None"} THEN Polled(w, "Pending", Ok, << >>, 0)
    ELSE StreamItem(SerializeOf(FreshBuf(w), s.value))

\* Stream::poll_next, s being what p.stream.poll_next(cx) returned.
PollNextOf(w, s) ==
    IF s.kind = "Pending" THEN Polled(w, "Pending", Ok, << >>, 0)
    ELSE IF s.kind = "None" THEN Polled(w, "None", Ok, << >>, 0)
    ELSE StreamItem(SerializeOf(FreshBuf(w), s.value))

\* ------------------------------------------------------------------- state

VARIABLES
    builder,  \* the WriterBuilder the Writer was built from
    state,    \* Writer.state : WriterState
    core,     \* Writer.core : the encoder's state
    buf,      \* the caller's output buffer
    hist,     \* the calls made so far, with their results
    adapter,  \* "none" (the Writer is driven directly), "iter" or "stream"
    source,   \* what is left of the adapter's input sequence
    yielded   \* what the pulls or polls made so far returned

vars == <<builder, state, core, buf, hist, adapter, source, yielded>>

Cur == [state |-> state, core |-> core, buf |-> buf]

\* The inputs of the calls.
NameX == <<120>>
NameY == <<121>>
RowXY == Struct(<<NameX, NameY>>, <<Scalar(FieldA), Scalar(FieldQ)>>)
RowXYb == Struct(<<NameX, NameY>>, <<Scalar(EmptyField), Scalar(FieldA)>>)
Pair == Container(<<Scalar(FieldA), Scalar(FieldA)>>)
StructWithTuple ==
    Struct(<<NameX, NameY>>, <<Scalar(FieldA), Pair>>)
ScalarThenStruct == Container(<<Scalar(FieldA), RowXY>>)
PairWithMap == Container(<<Scalar(FieldA), Rejected("map")>>)
ValueInputs ==
    {RowXY, RowXYb, Pair, StructWithTuple, ScalarThenStruct, PairWithMap}
FieldInputs == {EmptyField, FieldQ}
RecordInputs ==
    {<< >>, <<EmptyField>>, <<FieldA, FieldQ>>, <<FieldA, FieldA, FieldA>>}

\* One call: its operation, its input, the number of fields supplied, its
\* result, and the Writer and buffer length before and after it.
Call(op, input, n, r) ==
    [op |-> op, input |-> input, nfields |-> n, res |-> r.res,
     pre |-> state, post |-> r.state,
     from |-> Len(buf), to |-> Len(r.buf),
     header_row |-> IF op = "serialize" THEN r.header_row ELSE FALSE,
     mid |-> IF op = "serialize" THEN r.mid ELSE Len(buf)]

Apply(op, input, n, r) ==
    /\ state' = r.state
    /\ core' = r.core
    /\ buf' = r.buf
    /\ hist' = Append(hist, Call(op, input, n, r))
    /\ UNCHANGED <<builder, adapter, source, yielded>>

\* WriterBuilder::build(): a Writer and an empty buffer.
Built ==
    /\ builder \in WriterBuilder
    /\ state = WriterNew(builder).state
    /\ core = WriterNew(builder).core
    /\ buf = << >>
    /\ hist = << >>
    /\ yielded = << >>

Init ==
    /\ Built
    /\ adapter = "none"
    /\ source = << >>

\* wtr.write_field(&mut buf, field)
WriteField ==
    /\ Len(hist) < MaxCalls
    /\ \E field \in FieldInputs :
         Apply("write_field", <<field>>, 1, WriteFieldImpl(Cur, field))

\* wtr.write_record(&mut buf, record)
WriteRecord ==
    /\ Len(hist) < MaxCalls
    /\ \E record \in RecordInputs :
         Apply("write_record", record, Len(record), WriteRecordOf(Cur, record))

\* wtr.serialize(&mut buf, record)
Serialize ==
    /\ Len(hist) < MaxCalls
    /\ \E value \in ValueInputs :
         Apply("serialize", value, Leaves(value), SerializeOf(Cur, value))

Next == WriteField \/ WriteRecord \/ Serialize

Spec == Init /\ [][Next]_vars

\* Values of every shape the serializer tells apart, the rejected ones at
\* the top level, inside a container and as a named field's value.
RowWithVariant ==
    Struct(<<NameX, NameY>>, <<Scalar(FieldA), Rejected("struct_variant")>>)
RowThenVariant == Container(<<RowXY, Rejected("tuple_variant")>>)
NestedMap == Container(<<Pair, Container(<<Rejected("map")>>)>>)
ShapeInputs ==
    ValueInputs \cup
      {Rejected("tuple_variant"), Rejected("struct_variant"), Rejected("map"),
       RowWithVariant, RowThenVariant, NestedMap}

\* wtr.serialize(&mut buf, record), over all the shapes
SerializeShape ==
    /\ Len(hist) < MaxCalls
    /\ \E value \in ShapeInputs :
         Apply("serialize", value, Leaves(value), SerializeOf(Cur, value))

NextShapes == SerializeShape

SpecShapes == Init /\ [][NextShapes]_vars

\* The sequences over S of length at most n.
SeqUpTo(S, n) == UNION {[1..k -> S] : k \in 0..n}

\* The values an adapter's input sequence holds.
AdapterInputs == {RowXY, Pair, StructWithTuple, PairWithMap}

\* WriterBuilder::build_iter(rows), WriterBuilder::build_stream(stream).
InitAdapters ==
    /\ Built
    /\ adapter \in {"iter", "stream"}
    /\ source \in SeqUpTo(AdapterInputs, MaxItems)

\* self.iter.next(), and p.stream.poll_next(cx) when the source is ready.
SourceNext == IF source = << >> THEN SourceNone ELSE SourceSome(Head(source))

\* One pull or poll: what the source handed over, what the adapter
\* returned, and the adapter's Writer and source before and after it.
Outcome(s, r) ==
    [src |-> s.kind, value |-> s.value,
     out |-> r.out, res |-> r.res, bytes |-> r.bytes, calls |-> r.calls,
     pre |-> [state |-> state, core |-> core],
     post |-> [state |-> r.state, core |-> r.core],
     left |-> source]

Pull(s, r) ==
    /\ state' = r.state
    /\ core' = r.core
    /\ source' = IF s.kind = "Some" THEN Tail(source) ELSE source
    /\ yielded' = Append(yielded, Outcome(s, r))
    /\ UNCHANGED <<builder, buf, hist, adapter>>

\* The wrapped stream reported completion.
SourceCompleted == \E k \in 1..Len(yielded) : yielded[k].src = "None"

\* csv_iter.next()
IterNext ==
    /\ adapter = "iter"
    /\ Len(yielded) < MaxPolls
    /\ Pull(SourceNext, IterNextOf(Cur, SourceNext))

\* csv_stream.poll_next(cx): the source is not ready, or hands over its
\* next value or its completion.
PollNext ==
    /\ adapter = "stream"
    /\ Len(yielded) < MaxPolls
    /\ ~SourceCompleted
    /\ \E s \in {SourcePending, SourceNext} : Pull(s, PollNextOf(Cur, s))

NextAdapters == IterNext \/ PollNext

SpecAdapters == InitAdapters /\ [][NextAdapters]_vars

\* ------------------------------------------------------------- properties

Calls == 1..Len(hist)
OnlyOp(op) == \A i \in Calls : hist[i].op = op

\* The bytes call i appended, and the terminator of the configuration.
Appended(i) == SubSeq(buf, hist[i].from + 1, hist[i].to)
TermBytes == IF builder.term.kind = "CRLF" THEN <<CR, LF>> ELSE <<builder.term.byte>>
EndsWithTerminator(i) ==
    /\ hist[i].to - hist[i].from >= Len(TermBytes)
    /\ SubSeq(buf, hist[i].to - Len(TermBytes) + 1, hist[i].to) = TermBytes

\* The number of names a header pass writes for a value.
RECURSIVE NameCount(_), NameCountOf(_)
NameCount(v) ==
    IF v.kind = "struct" THEN Len(v.names)
    ELSE IF v.kind = "seq" THEN NameCountOf(v.elems) ELSE 0
NameCountOf(elems) ==
    IF elems = << >> THEN 0
    ELSE NameCount(Head(elems)) + NameCountOf(Tail(elems))

\* Call c completed a row (a terminator was written).
Completed(c) ==
    \/ c.op = "write_record" /\ c.res.kind = "Ok"
    \/ c.op = "serialize" /\ (c.header_row \/ c.res.kind = "Ok")

\* The first row end of call c is the end of a header row.
EndsHeaderFirst(c) ==
    /\ c.op = "serialize"
    /\ c.pre.header = "Write"
    /\ c.post.header \in {"DidWrite", "Write"}

\* The number of fields of the row that the first row end of call c closes:
\* the fields pending before the call plus those the call supplies.
RowLen(c) ==
    c.pre.fields_written +
      (IF EndsHeaderFirst(c) THEN NameCount(c.input) ELSE c.nfields)

\* The number of fields of the row whose end failed in call c.
FailedRowLen(c) == IF c.header_row THEN c.nfields ELSE RowLen(c)

\* C1: with flexible off, in a run of write_record calls on a fresh Writer
\* every call whose row and all rows before it have as many fields as the
\* first row succeeds, and the first call whose row differs from the first
\* row is the first call that fails, and it fails with UnequalLengths.
C1_FirstDifferingRowFails ==
    (~builder.flexible /\ OnlyOp("write_record")) =>
      \A i \in Calls :
        LET same(j) == hist[j].nfields = hist[1].nfields
            sameBefore == \A j \in 1..(i - 1) : same(j)
        IN  /\ (sameBefore /\ same(i)) => hist[i].res = Ok
            /\ (sameBefore /\ ~same(i)) =>
                 /\ hist[i].res.kind = "UnequalLengths"
                 /\ \A j \in 1..(i - 1) : hist[j].res = Ok

C1_Witness ==
    /\ ~builder.flexible /\ OnlyOp("write_record") /\ Len(hist) = 3
    /\ hist[1].nfields = 2 /\ hist[2].nfields = 2 /\ hist[3].nfields = 3
    /\ hist[2].res = Ok
    /\ hist[3].res.kind = "UnequalLengths"

\* C2: every UnequalLengths error carries, as expected_len, the field count
\* of the first row the Writer completed and, as len, the number of fields
\* of the row whose end failed.
C2_ErrorCarriesBothCounts ==
    \A i \in Calls :
      hist[i].res.kind = "UnequalLengths" =>
        /\ \E k \in 1..i :
             /\ Completed(hist[k])
             /\ \A j \in 1..(k - 1) : ~Completed(hist[j])
             /\ hist[i].res.expected_len = RowLen(hist[k])
        /\ hist[i].res.len = FailedRowLen(hist[i])

C2_Witness ==
    /\ Len(hist) = 2
    /\ hist[1].op = "write_record" /\ hist[1].input = <<FieldA, FieldQ>>
    /\ hist[2].op = "write_record" /\ hist[2].input = <<FieldA, FieldA, FieldA>>
    /\ hist[2].res = UnequalLengths(2, 3)

\* C3: with flexible on no call returns UnequalLengths: every write_record
\* call succeeds and ends with the terminator, and every serialize call
\* either does the same or fails with a Serialize error.
C3_FlexibleNeverUnequalLengths ==
    builder.flexible =>
      \A i \in Calls :
        /\ hist[i].res.kind # "UnequalLengths"
        /\ hist[i].op = "write_field" => hist[i].res = Ok
        /\ hist[i].op = "write_record" =>
             hist[i].res = Ok /\ EndsWithTerminator(i)
        /\ hist[i].op = "serialize" =>
             \/ hist[i].res = Ok /\ EndsWithTerminator(i)
             \/ /\ hist[i].res.kind = "Serialize"
                /\ (HasRejected(hist[i].input) \/ hist[i].pre.header = "Write")

C3_Witness ==
    /\ builder.flexible /\ Len(hist) = 3
    /\ hist[1].op = "write_record" /\ hist[1].nfields = 2
    /\ hist[2].op = "write_record" /\ hist[2].nfields = 3
    /\ hist[3].op = "serialize" /\ hist[3].input = StructWithTuple
    /\ \A i \in Calls : hist[i].res = Ok /\ hist[i].post.fields_written = 0

\* The scalars of a value and the names of its fields, depth first.
RECURSIVE Flat(_), FlatOf(_)
Flat(v) == IF v.kind = "scalar" THEN <<v.bytes>> ELSE FlatOf(v.elems)
FlatOf(elems) ==
    IF elems = << >> THEN << >> ELSE Flat(Head(elems)) \o FlatOf(Tail(elems))

\* A struct whose fields are all scalars.
IsRow(v) ==
    /\ v.kind = "struct"
    /\ \A k \in 1..Len(v.elems) : v.elems[k].kind = "scalar"

\* The CSV text of one row under the Writer's configuration: the fields,
\* quoted where the style asks for it, joined by the delimiter and followed
\* by the terminator; a row of no bytes is a quoted empty field unless the
\* style is Never.
RowField(f) ==
    IF ShouldQuote(CoreNew(builder), f)
    THEN <<QuoteByte>> \o QuoteBody(f) \o <<QuoteByte>>
    ELSE f
RECURSIVE RowJoin(_)
RowJoin(fields) ==
    IF fields = << >> THEN << >>
    ELSE IF Len(fields) = 1 THEN RowField(fields[1])
    ELSE RowField(Head(fields)) \o <<DelimiterByte>> \o RowJoin(Tail(fields))
RowText(fields) ==
    (IF RowJoin(fields) = << >> /\ builder.style # "Never"
     THEN <<QuoteByte, QuoteByte>> ELSE RowJoin(fields)) \o TermBytes

\* The data rows of calls 1..n, in call order.
RECURSIVE DataRows(_)
DataRows(n) ==
    IF n = 0 THEN << >>
    ELSE DataRows(n - 1) \o RowText(Flat(hist[n].input))

\* C4: with header emission on, serializing structs of one type through one
\* Writer writes the header row once, by the first call and before its data
\* row, and then one data row per value in call order.
C4_OneHeaderThenDataRows ==
    (/\ builder.has_headers /\ Len(hist) > 0 /\ OnlyOp("serialize")
     /\ \A i \in Calls :
          IsRow(hist[i].input) /\ hist[i].input.names = hist[1].input.names) =>
      /\ \A i \in Calls : hist[i].res = Ok /\ (hist[i].header_row <=> i = 1)
      /\ hist[1].mid = Len(RowText(hist[1].input.names))
      /\ buf = RowText(hist[1].input.names) \o DataRows(Len(hist))

C4_Witness ==
    /\ builder.has_headers /\ Len(hist) = 3 /\ OnlyOp("serialize")
    /\ hist[1].input = RowXY /\ hist[2].input = RowXYb /\ hist[3].input = RowXY
    /\ Cardinality({i \in Calls : hist[i].header_row}) = 1
    /\ hist[3].res = Ok

IsTupleOfScalars(v) ==
    /\ v.kind = "seq"
    /\ \A k \in 1..Len(v.elems) : v.elems[k].kind = "scalar"

\* C6: with header emission on, when the first serialize call gets a tuple
\* of scalars, no header row is written, the header state becomes
\* DidNotWrite and no later call writes a header row; as the first call on
\* the Writer it succeeds and appends exactly the data row.
C6_NoNamesNoHeaderEver ==
    builder.has_headers =>
      \A i \in Calls :
        (/\ hist[i].op = "serialize" /\ IsTupleOfScalars(hist[i].input)
         /\ \A j \in 1..(i - 1) : hist[j].op # "serialize") =>
          /\ ~hist[i].header_row
          /\ hist[i].pre.header = "Write"
          /\ hist[i].post.header = "DidNotWrite"
          /\ \A j \in (i + 1)..Len(hist) :
               ~hist[j].header_row /\ hist[j].post.header = "DidNotWrite"
          /\ i = 1 => /\ hist[i].res = Ok
                      /\ Appended(i) = RowText(Flat(hist[i].input))

C6_Witness ==
    /\ builder.has_headers /\ Len(hist) = 2
    /\ hist[1].op = "serialize" /\ hist[1].input = Pair /\ hist[1].res = Ok
    /\ hist[2].op = "serialize" /\ hist[2].input = RowXY /\ hist[2].res = Ok
    /\ state.header = "DidNotWrite"

\* C7: with header emission off the header state is None before and after
\* every call, no call writes a header row, and a run of successful
\* serialize calls leaves exactly one data row per value in the buffer.
C7_HeadersOffStaysNone ==
    ~builder.has_headers =>
      /\ state.header = "None"
      /\ \A i \in Calls :
           /\ hist[i].pre.header = "None" /\ hist[i].post.header = "None"
           /\ ~hist[i].header_row
           /\ hist[i].mid = hist[i].from
      /\ (OnlyOp("serialize") /\ \A i \in Calls : hist[i].res = Ok) =>
           buf = DataRows(Len(hist))

C7_Witness ==
    /\ ~builder.has_headers /\ Len(hist) = 3 /\ OnlyOp("serialize")
    /\ hist[1].input = RowXY /\ hist[2].input = RowXYb
    /\ hist[3].input = Pair
    /\ \A i \in Calls : hist[i].res = Ok

\* The bytes of a row that holds one empty field.
EmptyRowText ==
    (IF builder.style = "Never" THEN << >> ELSE <<QuoteByte, QuoteByte>>)
      \o TermBytes

\* C8: a write_record call with no fields on an empty current row, when it
\* succeeds, appends a single empty field and the terminator; as the first
\* row these are the bytes that write_record with one empty field appends.
C8_EmptyRecordIsOneEmptyField ==
    \A i \in Calls :
      /\ (/\ hist[i].op = "write_record" /\ hist[i].input = << >>
          /\ hist[i].pre.fields_written = 0 /\ hist[i].res = Ok) =>
           Appended(i) = EmptyRowText
      /\ (/\ i = 1 /\ hist[i].op = "write_record"
          /\ hist[i].input \in {<< >>, <<EmptyField>>}) =>
           hist[i].res = Ok /\ Appended(i) = EmptyRowText

C8_Witness ==
    /\ Len(hist) = 2 /\ builder.style = "Necessary"
    /\ hist[1].op = "write_record" /\ hist[1].input = << >>
    /\ hist[2].op = "write_record" /\ hist[2].input = << >>
    /\ hist[2].res = Ok
    /\ buf = <<QuoteByte, QuoteByte>> \o TermBytes
               \o <<QuoteByte, QuoteByte>> \o TermBytes

\* The fields of the write_field calls i..j-1.
RECURSIVE FieldsOf(_, _)
FieldsOf(i, j) ==
    IF i >= j THEN << >> ELSE hist[i].input \o FieldsOf(i + 1, j)

\* Calls i..j-1 are write_field calls that start a row, and call j, the
\* last call so far, is write_record with no fields.
FieldsThenEmptyRecord(i, j) ==
    /\ i < j /\ j = Len(hist)
    /\ hist[i].pre.fields_written = 0
    /\ \A k \in i..(j - 1) : hist[k].op = "write_field"
    /\ hist[j].op = "write_record" /\ hist[j].input = << >>

\* C9: n >= 1 write_field calls followed by write_record with no fields
\* return the same result, append the same bytes and leave the Writer and
\* its encoder in the same state as one write_record call with the n fields
\* made where the first write_field call was made.
C9_FieldsThenEmptyRecordIsRecord ==
    \A i \in Calls : \A j \in Calls :
      FieldsThenEmptyRecord(i, j) =>
        LET one == WriteRecordOf([state |-> hist[i].pre,
                                  core |-> CoreNew(builder),
                                  buf |-> SubSeq(buf, 1, hist[i].from)],
                                 FieldsOf(i, j))
        IN  /\ one.res = hist[j].res
            /\ one.buf = buf
            /\ one.state = state
            /\ one.core = core

C9_Witness ==
    /\ Len(hist) = 3 /\ FieldsThenEmptyRecord(1, 3)
    /\ hist[1].input = <<FieldQ>> /\ hist[2].input = <<EmptyField>>
    /\ hist[3].res = Ok /\ state.fields_written = 0

\* C10: after write_record or serialize returns an error, first_field_count
\* is what it was before the call and fields_written is 0.
C10_CountsCleanAfterError ==
    \A i \in Calls :
      (hist[i].op \in {"write_record", "serialize"} /\ hist[i].res.kind # "Ok") =>
        /\ hist[i].post.first_field_count = hist[i].pre.first_field_count
        /\ hist[i].post.fields_written = 0

\* C11: with flexible off, when a write_record call fails with
\* UnequalLengths and the next call is write_record with as many fields as
\* the first completed row had, that next call succeeds.
C11_RetryWithBaselineSucceeds ==
    ~builder.flexible =>
      \A i \in Calls :
        (/\ i < Len(hist)
         /\ hist[i].op = "write_record"
         /\ hist[i].res.kind = "UnequalLengths"
         /\ hist[i + 1].op = "write_record"
         /\ hist[i + 1].nfields = hist[i].res.expected_len) =>
          hist[i + 1].res = Ok

\* ------------------------------------------------- properties of adapters

Polls == 1..Len(yielded)

\* The input sequence the adapter was built with.
Input == IF yielded = << >> THEN source ELSE yielded[1].left

\* What serialize returns for the value of pull or poll k, called on the
\* adapter's Writer as it was before the pull, with an empty buffer.
Serialized(k) ==
    SerializeOf([state |-> yielded[k].pre.state, core |-> yielded[k].pre.core,
                 buf |-> << >>], yielded[k].value)

\* The item of pull or poll k is the result of serialize: the buffer it
\* filled, or its error.
ItemIsSerialized(k) ==
    /\ yielded[k].out = "Some"
    /\ yielded[k].calls = 1
    /\ yielded[k].res = Serialized(k).res
    /\ yielded[k].res = Ok => yielded[k].bytes = Serialized(k).buf
    /\ yielded[k].post.state = Serialized(k).state

\* C12: the k-th pull of the pull adapter takes the k-th element of the
\* input and yields one item for it, the buffer or the error of serialize,
\* also after an element that failed; every pull after the last element
\* returns None, calls serialize not at all and leaves the Writer as it was.
C12_OneItemPerElement ==
    adapter = "iter" =>
      /\ \A k \in Polls :
           /\ yielded[k].left =
                SubSeq(Input, Min(k, Len(Input) + 1), Len(Input))
           /\ k <= Len(Input) =>
                /\ yielded[k].src = "Some"
                /\ yielded[k].value = Input[k]
                /\ ItemIsSerialized(k)
           /\ k > Len(Input) =>
                /\ yielded[k].out = "None"
                /\ yielded[k].calls = 0
                /\ yielded[k].post = yielded[k].pre
      /\ source = SubSeq(Input, Min(Len(yielded), Len(Input)) + 1, Len(Input))

C12_Witness ==
    /\ adapter = "iter" /\ Len(yielded) = 3
    /\ Input = <<PairWithMap, RowXY>>
    /\ yielded[1].out = "Some" /\ yielded[1].res = SerializeError
    /\ yielded[2].out = "Some" /\ yielded[2].res = Ok
    /\ yielded[3].out = "None"

\* The values the adapter took from its input in the first n pulls, and the
\* buffers it yielded for them, concatenated.
RECURSIVE Pulled(_), Collected(_)
Pulled(n) ==
    IF n = 0 THEN << >>
    ELSE Pulled(n - 1) \o (IF yielded[n].src = "Some"
                           THEN <<yielded[n].value>> ELSE << >>)
Collected(n) ==
    IF n = 0 THEN << >> ELSE Collected(n - 1) \o yielded[n].bytes

\* serialize called on each value in order, with one Writer and one buffer.
RECURSIVE SerializeAll(_, _)
SerializeAll(w, values) ==
    IF values = << >> THEN w
    ELSE SerializeAll(SerializeOf(w, Head(values)), Tail(values))

\* C13: when every item an adapter (pull or push) has yielded is a buffer,
\* the buffers concatenated are the bytes that serialize, called on the
\* same values in order with one Writer of the same configuration and one
\* buffer, leaves in that buffer, and the adapter's Writer is in the state
\* of that Writer.
C13_AdapterBytesAreSerializeBytes ==
    (adapter \in {"iter", "stream"} /\ \A k \in Polls : yielded[k].res = Ok) =>
      LET all == SerializeAll([state |-> WriterNew(builder).state,
                               core |-> WriterNew(builder).core,
                               buf |-> << >>, res |-> Ok],
                              Pulled(Len(yielded)))
      IN  /\ all.res = Ok
          /\ all.buf = Collected(Len(yielded))
          /\ all.state = state
          /\ all.core = core

C13_Witness ==
    /\ adapter = "stream" /\ builder.has_headers /\ Len(yielded) = 4
    /\ Pulled(4) = <<RowXY, RowXY>>
    /\ yielded[2].src = "Pending" /\ yielded[4].src = "None"
    /\ \A k \in Polls : yielded[k].res = Ok
    /\ state.header = "DidWrite"
    /\ Len(yielded[1].bytes) > Len(yielded[3].bytes)

\* C14: when serialize fails for the value the source hands to a poll of
\* the push adapter, the poll returns Ready(Some(Err(e))) with that error,
\* and the polls after it are answered from the elements that follow in the
\* source, in order, up to the source's completion.
C14_ErrorIsYieldedItem ==
    adapter = "stream" =>
      \A k \in Polls :
        (yielded[k].src = "Some" /\ Serialized(k).res.kind # "Ok") =>
          /\ yielded[k].out = "Some"
          /\ yielded[k].res = Serialized(k).res
          /\ yielded[k].res.kind \in {"Serialize", "UnequalLengths"}
          /\ yielded[k].value = Head(yielded[k].left)
          /\ (IF k < Len(yielded) THEN yielded[k + 1].left ELSE source) =
               Tail(yielded[k].left)
          /\ \A j \in (k + 1)..Len(yielded) :
               /\ yielded[j].src = "Some" =>
                    /\ yielded[j].value = Head(yielded[j].left)
                    /\ yielded[j].out = "Some"
               /\ yielded[j].src = "None" => yielded[j].left = << >>

C14_Witness ==
    /\ adapter = "stream" /\ ~builder.flexible /\ builder.has_headers
    /\ Len(yielded) = 4
    /\ Input = <<RowXY, StructWithTuple>>
    /\ yielded[1].res = Ok
    /\ yielded[2].src = "Pending"
    /\ yielded[3].out = "Some" /\ yielded[3].res = UnequalLengths(2, 3)
    /\ yielded[4].src = "None" /\ yielded[4].out = "None"

\* C15: a poll of the push adapter whose source is not ready returns
\* Pending, and one whose source has completed returns Ready(None); neither
\* calls serialize, produces a buffer or changes the Writer. A poll whose
\* source yields a value calls serialize once.
C15_NotReadyAndCompletionPassThrough ==
    adapter = "stream" =>
      \A k \in Polls :
        /\ yielded[k].src \in {"Pending", "None"} =>
             /\ yielded[k].out = yielded[k].src
             /\ yielded[k].calls = 0
             /\ yielded[k].bytes = << >>
             /\ yielded[k].post = yielded[k].pre
        /\ yielded[k].src = "Some" => ItemIsSerialized(k)

C15_Witness ==
    /\ adapter = "stream" /\ Len(yielded) = 4
    /\ yielded[1].out = "Pending"
    /\ yielded[2].out = "Some" /\ yielded[2].res = Ok
    /\ yielded[3].out = "Pending"
    /\ yielded[4].out = "None"
    /\ state.fields_written = 0 /\ state.header = "DidNotWrite"

\* ------------------------------------------------ properties, continued

\* C17: with flexible off, when serialize writes a header row, the number
\* of fields of that row (the names, after the fields that were pending, if
\* any) is first_field_count; the names are as many as the fields of the
\* value's data row, which the same call completes when no field was
\* pending; every later row that completes has as many fields as the header
\* row, and a later serialize call, no field pending, of a value free of
\* rejected shapes with another number of scalars fails with UnequalLengths.
C17_HeaderCountIsBaseline ==
    ~builder.flexible =>
      \A i \in Calls :
        hist[i].header_row =>
          /\ hist[i].post.first_field_count = Some(RowLen(hist[i]))
          /\ RowLen(hist[i]) =
               hist[i].pre.fields_written + NameCount(hist[i].input)
          /\ NameCount(hist[i].input) = Leaves(hist[i].input)
          /\ hist[i].pre.fields_written = 0 => hist[i].res = Ok
          /\ \A j \in (i + 1)..Len(hist) :
               /\ Completed(hist[j]) => RowLen(hist[j]) = RowLen(hist[i])
               /\ (/\ hist[j].op = "serialize"
                   /\ hist[j].pre.fields_written = 0
                   /\ ~HasRejected(hist[j].input)
                   /\ Leaves(hist[j].input) # RowLen(hist[i])) =>
                    hist[j].res = UnequalLengths(RowLen(hist[i]),
                                                 Leaves(hist[j].input))

C17_Witness ==
    /\ ~builder.flexible /\ builder.has_headers /\ Len(hist) = 3
    /\ hist[1].op = "serialize" /\ hist[1].input = RowXY /\ hist[1].header_row
    /\ hist[2].op = "serialize" /\ hist[2].input = RowXYb /\ hist[2].res = Ok
    /\ hist[3].op = "serialize" /\ hist[3].input = StructWithTuple
    /\ hist[3].res = UnequalLengths(2, 3)

\* Call i appended no end of row.
NoRowEnd(i) == \A p \in (hist[i].from + 1)..hist[i].to : buf[p] # LF

\* C18: serialize returns a Serialize error for every value that holds a
\* tuple variant, a struct variant or a map, with header emission on or
\* off, and the call ends no row, header or data.
C18_RejectedShapeIsSerializeError ==
    \A i \in Calls :
      (hist[i].op = "serialize" /\ HasRejected(hist[i].input)) =>
        /\ hist[i].res = SerializeError
        /\ ~hist[i].header_row
        /\ NoRowEnd(i)

C18_Witness ==
    /\ Len(hist) = 3
    /\ hist[1].input = RowXY /\ hist[1].res = Ok
    /\ hist[2].input = RowThenVariant /\ hist[2].res = SerializeError
    /\ hist[2].pre.header = "DidWrite" /\ hist[2].post.fields_written = 2
    /\ hist[3].input = Rejected("map") /\ hist[3].res = SerializeError

\* The values of the has_headers table that break restriction 1 or 2:
\* Foo { x: 5, y: (6, 7) } and (5, Foo { x: 6, y: 7 }).
RestrictionViolations == {StructWithTuple, ScalarThenStruct}

C20_HeaderStateOnlyForward ==
    /\ state.header = IF hist = << >> THEN WriterNew(builder).state.header
                      ELSE hist[Len(hist)].post.header
    /\ \A i \in Calls :
         /\ hist[i].pre.header = IF i = 1 THEN WriterNew(builder).state.header
                                 ELSE hist[i - 1].post.header
         /\ \/ hist[i].post.header = hist[i].pre.header
            \/ /\ hist[i].op = "serialize"
               /\ hist[i].pre.header = "Write"
               /\ hist[i].post.header \in {"DidWrite", "DidNotWrite"}

C20_Witness ==
    /\ Len(hist) = 3
    /\ hist[1].op = "serialize" /\ hist[1].pre.header = "Write"
    /\ hist[1].post.header = "DidNotWrite"
    /\ hist[2].op = "write_record"
    /\ hist[3].op = "serialize" /\ hist[3].input = RowXY /\ hist[3].res = Ok
    /\ state.header = "DidNotWrite"

\* ------------------------------------------------ properties, continued

\* Call i is the first serialize call on the Writer.
FirstSerialize(i) ==
    hist[i].op = "serialize" /\ \A j \in 1..(i - 1) : hist[j].op # "serialize"

\* C21: with header emission on, when the first serialize call has
\* returned, with success or with an error, the header state is DidWrite or
\* DidNotWrite, and no later serialize call finds the header state Write or
\* writes a header row.
C21_HeaderTriedOnFirstSerializeOnly ==
    builder.has_headers =>
      \A i \in Calls :
        FirstSerialize(i) =>
          /\ hist[i].post.header \in {"DidWrite", "DidNotWrite"}
          /\ \A j \in (i + 1)..Len(hist) :
               hist[j].op = "serialize" =>
                 hist[j].pre.header # "Write" /\ ~hist[j].header_row

\* The bytes call i appended end with the data row of its value.
DataRowWritten(i) ==
    \E m \in hist[i].from..hist[i].to :
      SubSeq(buf, m + 1, hist[i].to) = RowText(Flat(hist[i].input))

\* Call i started on an empty row of a Writer none of whose calls failed.
FreshRow(i) ==
    hist[i].pre.fields_written = 0 /\ \A j \in 1..(i - 1) : hist[j].res = Ok

C23_ZeroFieldRowCountsZero ==
    ~builder.flexible =>
      \A i \in Calls :
        /\ (/\ hist[i].op = "write_record" /\ hist[i].input = << >>
            /\ hist[i].pre.fields_written = 0) =>
             /\ ~hist[i].pre.first_field_count.some =>
                  /\ hist[i].res = Ok
                  /\ hist[i].post.first_field_count = Some(0)
             /\ hist[i].pre.first_field_count = Some(0) => hist[i].res = Ok
             /\ (/\ hist[i].pre.first_field_count.some
                 /\ hist[i].pre.first_field_count.val > 0) =>
                  hist[i].res =
                    UnequalLengths(hist[i].pre.first_field_count.val, 0)
        /\ (/\ hist[i].op = "write_record" /\ hist[i].input = <<EmptyField>>
            /\ hist[i].pre.fields_written = 0
            /\ hist[i].pre.first_field_count = Some(0)) =>
             hist[i].res = UnequalLengths(0, 1)

C23_Witness ==
    /\ ~builder.flexible /\ Len(hist) = 3
    /\ hist[1].op = "write_record" /\ hist[1].input = << >>
    /\ hist[1].res = Ok /\ hist[1].post.first_field_count = Some(0)
    /\ hist[2].op = "write_record" /\ hist[2].input = << >>
    /\ hist[2].res = Ok
    /\ hist[3].op = "write_record" /\ hist[3].input = <<EmptyField>>
    /\ hist[3].res = UnequalLengths(0, 1)

\* C24: fields_written is 0 at construction and changes only in calls:
\* write_field adds 1; write_record and serialize leave 0 when they return
\* Ok; a call that fails at a row end leaves the count of the row that
\* failed, and one that fails before a row end leaves at least the fields
\* that were pending and at most those plus the names and scalars of its
\* value.
C24_FieldsWrittenCountsOpenRow ==
    /\ state.fields_written =
         IF hist = << >> THEN 0 ELSE hist[Len(hist)].post.fields_written
    /\ \A i \in Calls :
         /\ hist[i].pre.fields_written =
              IF i = 1 THEN 0 ELSE hist[i - 1].post.fields_written
         /\ hist[i].op = "write_field" =>
              hist[i].post.fields_written = hist[i].pre.fields_written + 1
         /\ hist[i].op = "write_record" =>
              hist[i].post.fields_written =
                IF hist[i].res = Ok THEN 0
                ELSE hist[i].pre.fields_written + hist[i].nfields
         /\ hist[i].op = "serialize" =>
              /\ hist[i].res = Ok => hist[i].post.fields_written = 0
              /\ hist[i].res.kind = "UnequalLengths" =>
                   hist[i].post.fields_written = FailedRowLen(hist[i])
              /\ hist[i].res.kind = "Serialize" =>
                   /\ ~hist[i].header_row
                   /\ hist[i].post.fields_written >=
                        hist[i].pre.fields_written
                   /\ hist[i].post.fields_written <=
                        hist[i].pre.fields_written + hist[i].nfields
                          + NameCount(hist[i].input)

C24_Witness ==
    /\ Len(hist) = 3
    /\ hist[1].op = "write_field" /\ hist[1].post.fields_written = 1
    /\ hist[2].op = "write_record" /\ hist[2].nfields = 2
    /\ hist[2].res = Ok /\ hist[2].post.fields_written = 0
    /\ hist[3].op = "write_field" /\ state.fields_written = 1

\* The number of times byte b occurs in bytes.
RECURSIVE CountByte(_, _)
CountByte(bytes, b) ==
    IF bytes = << >> THEN 0
    ELSE (IF Head(bytes) = b THEN 1 ELSE 0) + CountByte(Tail(bytes), b)

\* The quote that ends field f when the encoder quoted it.
Closing(f) ==
    IF ShouldQuote(CoreNew(builder), f) THEN <<QuoteByte>> ELSE << >>

\* C25: a call appends one terminator per row end whose check passed and
\* none for a row end whose check failed: a call that returns Ok appended
\* one terminator per row it wrote, and a call that fails with
\* UnequalLengths appended no terminator for the failed row, left the
\* fields of that row in the buffer, fields_written at the failed row's
\* count and first_field_count as it was.
C25_TerminatorIffCheckPasses ==
    \A i \in Calls :
      /\ hist[i].op = "write_field" => CountByte(Appended(i), LF) = 0
      /\ (hist[i].op = "write_record" /\ hist[i].res = Ok) =>
           EndsWithTerminator(i) /\ CountByte(Appended(i), LF) = 1
      /\ (hist[i].op = "serialize" /\ hist[i].res = Ok) =>
           /\ EndsWithTerminator(i)
           /\ CountByte(Appended(i), LF) = IF hist[i].header_row THEN 2 ELSE 1
      /\ hist[i].res.kind = "UnequalLengths" =>
           /\ CountByte(Appended(i), LF) = IF hist[i].header_row THEN 1 ELSE 0
           /\ hist[i].res.len # hist[i].res.expected_len
           /\ hist[i].post.fields_written = hist[i].res.len
           /\ hist[i].post.first_field_count = Some(hist[i].res.expected_len)
           /\ (/\ hist[i].op = "write_record" /\ hist[i].nfields > 0
               /\ FreshRow(i)) =>
                RowJoin(hist[i].input) =
                  Appended(i) \o Closing(hist[i].input[hist[i].nfields])

C25_Witness ==
    /\ Len(hist) = 2
    /\ hist[1].op = "write_record" /\ hist[1].input = <<FieldA, FieldQ>>
    /\ hist[2].op = "write_record" /\ hist[2].input = <<EmptyField>>
    /\ hist[2].res = UnequalLengths(2, 1)
    /\ state.fields_written = 1
    /\ hist[2].to = hist[2].from

\* The end of the last row that ends before position p of the buffer.
RowEndBefore(p) ==
    IF \E q \in 1..(p - 1) : buf[q] = LF
    THEN CHOOSE q \in 1..(p - 1) :
           buf[q] = LF /\ \A r \in (q + 1)..(p - 1) : buf[r] # LF
    ELSE 0

\* C26: write_field appends a delimiter exactly when fields were pending,
\* write_record one before each of its fields but the first of a row; a row
\* of n >= 1 fields that write_record completes holds n - 1 delimiters
\* since the row end before it, and a record written on an empty row is the
\* fields with one delimiter between each two, and one terminator.
C26_DelimitersBetweenFields ==
    \A i \in Calls :
      /\ hist[i].op = "write_field" =>
           CountByte(Appended(i), DelimiterByte) =
             IF hist[i].pre.fields_written > 0 THEN 1 ELSE 0
      /\ hist[i].op = "write_record" =>
           CountByte(Appended(i), DelimiterByte) =
             IF hist[i].nfields = 0 THEN 0
             ELSE hist[i].nfields
                    - (IF hist[i].pre.fields_written = 0 THEN 1 ELSE 0)
      /\ (/\ hist[i].op = "write_record" /\ hist[i].res = Ok
          /\ RowLen(hist[i]) >= 1) =>
           CountByte(SubSeq(buf, RowEndBefore(hist[i].to) + 1, hist[i].to),
                     DelimiterByte) = RowLen(hist[i]) - 1
      /\ (/\ hist[i].op = "write_record" /\ hist[i].res = Ok
          /\ hist[i].nfields >= 1 /\ FreshRow(i)) =>
           /\ Appended(i) = RowText(hist[i].input)
           /\ CountByte(Appended(i), LF) = 1

C26_Witness ==
    /\ Len(hist) = 3
    /\ hist[1].op = "write_field" /\ hist[1].input = <<FieldQ>>
    /\ hist[2].op = "write_field" /\ hist[2].input = <<EmptyField>>
    /\ hist[3].op = "write_record" /\ hist[3].input = <<FieldA, FieldQ>>
    /\ hist[3].res = Ok
    /\ CountByte(buf, DelimiterByte) = 3

\* C27: every buffer an adapter yields holds whole rows of its own element
\* only: the data row of the element, after the header row when the element
\* is a struct whose names were written; it does not start with a delimiter
\* and it ends with the terminator.
C27_BuffersHoldWholeRows ==
    adapter \in {"iter", "stream"} =>
      \A k \in Polls :
        (yielded[k].out = "Some" /\ yielded[k].res = Ok) =>
          /\ yielded[k].bytes # << >>
          /\ yielded[k].bytes[1] # DelimiterByte
          /\ \/ yielded[k].bytes = RowText(Flat(yielded[k].value))
             \/ /\ yielded[k].value.kind = "struct"
                /\ yielded[k].bytes =
                     RowText(yielded[k].value.names)
                       \o RowText(Flat(yielded[k].value))

\* C28: a call leaves the bytes that were in the buffer in place and
\* appends to them, whatever it returns, and leaves none of the filler
\* bytes of extend behind: a terminator alone, or a first field alone,
\* lengthens the buffer by what the encoder reported.
C28_OnlyAppends ==
    [][/\ Len(buf') >= Len(buf)
       /\ SubSeq(buf', 1, Len(buf)) = buf
       /\ \A p \in 1..Len(buf') : buf'[p] # Pad
       /\ (/\ Len(hist') > Len(hist)
           /\ hist'[Len(hist')].op = "write_record"
           /\ hist'[Len(hist')].input = << >>
           /\ hist'[Len(hist')].res = Ok) =>
            Len(buf') = Len(buf) + TerminatorCall(Cur).nout
       /\ (/\ Len(hist') > Len(hist)
           /\ hist'[Len(hist')].op = "write_field"
           /\ state.fields_written = 0) =>
            Len(buf') =
              Len(buf) + FieldCall(Cur, hist'[Len(hist')].input[1]).nout]_vars

C28_Witness ==
    /\ Len(hist) = 3
    /\ hist[1].op = "write_record" /\ hist[1].input = << >>
    /\ hist[2].op = "write_field" /\ hist[2].input = <<FieldQ>>
    /\ hist[3].op = "write_record" /\ hist[3].res.kind = "UnequalLengths"
    /\ hist[3].from > 0 /\ hist[3].to > hist[3].from

\* Fields of up to three bytes, with the bytes the encoder treats
\* specially.
ProbeFields ==
    {EmptyField, FieldA, FieldQ, <<QuoteByte, QuoteByte, QuoteByte>>,
     <<DelimiterByte, LF>>}

\* An encoder call e finished, having consumed nin bytes and put out at
\* most cap.
Finished(e, nin, cap) ==
    e.res = "InputEmpty" /\ e.nin = nin /\ e.nout <= cap

\* The encoder as write_field_impl has it when it encodes a field: after
\* the delimiter when fields are pending.
BeforeField ==
    IF state.fields_written > 0 THEN [core |-> DelimiterCall(Cur).core]
    ELSE [core |-> core]

\* C29: in every reachable state of the Writer and its encoder, the
\* encoder call of each primitive finishes within the bytes reserved for
\* it: the delimiter in 2, the terminator in 4 and a field of len bytes in
\* 2 * len + 2, the whole field consumed.
C29_ReserveSuffices ==
    /\ Finished(DelimiterCall(Cur), 0, 2)
    /\ Finished(TerminatorCall(Cur), 0, 4)
    /\ \A f \in ProbeFields :
         Finished(FieldCall(BeforeField, f), Len(f), 2 * Len(f) + 2)

C29_Witness ==
    /\ Len(hist) = 2 /\ builder.term = TerminatorCRLF
    /\ hist[1].op = "write_record" /\ hist[1].input = << >>
    /\ hist[1].to - hist[1].from = 4
    /\ hist[2].op = "write_field" /\ hist[2].input = <<FieldQ>>
    /\ hist[2].to - hist[2].from = 3
    /\ core.quoting
    /\ DelimiterCall(Cur).nout = 2
    /\ TerminatorCall(Cur).nout = 3

\* Call k completed the first row of the Writer.
FirstCompleted(k) ==
    Completed(hist[k]) /\ \A j \in 1..(k - 1) : ~Completed(hist[j])

\* first_field_count is None until a row completes and then the field count
\* of the first row that completed.
BaselineIsFirstRow ==
    /\ ~state.first_field_count.some <=>
         ~\E k \in Calls : Completed(hist[k])
    /\ \A k \in Calls :
         FirstCompleted(k) => state.first_field_count = Some(RowLen(hist[k]))

\* C30 as stated: for every configuration first_field_count is None exactly
\* until the first row completes and from then on the field count of that
\* row.
C30_BaselineSetByFirstRow == builder \in WriterBuilder => BaselineIsFirstRow

\* C30, amended: with flexible off, first_field_count is None exactly until
\* the first row completes and from then on the field count of that row,
\* the header row if one was written first; with flexible on it is None in
\* every state.
C30_BaselineSetUnlessFlexible ==
    /\ ~builder.flexible => BaselineIsFirstRow
    /\ builder.flexible =>
         /\ state.first_field_count = None
         /\ \A i \in Calls : hist[i].post.first_field_count = None

C30_Witness ==
    /\ ~builder.flexible /\ builder.has_headers /\ Len(hist) = 3
    /\ hist[1].op = "write_field"
    /\ hist[2].op = "serialize" /\ hist[2].res.kind = "Serialize"
    /\ hist[2].post.first_field_count = None
    /\ hist[3].op = "serialize" /\ hist[3].header_row
    /\ FirstCompleted(3)
    /\ state.first_field_count = Some(RowLen(hist[3]))

\* The Writer states that the calls made so far went through, in order: the
\* state before each call, and the state now.
StatesSeen == [i \in 1..(Len(hist) + 1) |->
                 IF i <= Len(hist) THEN hist[i].pre ELSE state]

\* C31: once first_field_count holds a value it never changes again: no
\* later write_field, write_record or serialize call, whether it returns Ok
\* or an error, leaves another value or None in it, and a value is only
\* ever there with flexible off.
C31_BaselineNeverChanges ==
    /\ \A i \in Calls :
         hist[i].pre.first_field_count.some =>
             hist[i].post.first_field_count = hist[i].pre.first_field_count
    /\ \A i \in 1..Len(hist) : \A j \in i..(Len(hist) + 1) :
         StatesSeen[i].first_field_count.some =>
             StatesSeen[j].first_field_count = StatesSeen[i].first_field_count
    /\ state.first_field_count.some => ~builder.flexible

C31_Witness ==
    /\ ~builder.flexible /\ Len(hist) = 3
    /\ hist[1].res = Ok /\ hist[1].post.first_field_count = Some(2)
    /\ hist[2].res = UnequalLengths(2, 1)
    /\ hist[3].res = Ok /\ hist[3].op = "write_record"
    /\ hist[3].pre.fields_written = 1 /\ hist[3].input = <<EmptyField>>
    /\ state.first_field_count = Some(2)

\* Writer::new(&WriterBuilder::default()).state, written out.
DefaultStart ==
    [header |-> "Write", flexible |-> FALSE, first_field_count |-> None,
     fields_written |-> 0, panicked |-> FALSE]

\* C32: the configuration of a built Writer does not change: flexible is
\* in every state what the builder said, a Writer built with headers off is
\* in header state None in every state and one built with headers on never
\* is, and a default-built Writer starts with header state Write, flexible
\* off, first_field_count None and fields_written 0.
C32_ConfigurationImmutable ==
    /\ \A i \in 1..(Len(hist) + 1) :
         /\ StatesSeen[i].flexible = builder.flexible
         /\ StatesSeen[i].header = "None" <=> ~builder.has_headers
         /\ StatesSeen[i].header \in {"Write", "DidWrite", "DidNotWrite", "None"}
    /\ \A i \in Calls : hist[i].post.flexible = builder.flexible
    /\ builder = DefaultBuilder => StatesSeen[1] = DefaultStart

C32_Witness ==
    /\ builder = DefaultBuilder /\ Len(hist) = 3
    /\ hist[1].pre = DefaultStart
    /\ hist[1].op = "serialize" /\ hist[1].post.header = "DidWrite"
    /\ hist[2].res.kind = "UnequalLengths"
    /\ hist[3].res.kind = "Serialize"
    /\ state.flexible = FALSE /\ state.header = "DidWrite"

====
